---- MODULE Spec2Model ----
(***************************************************************************)
(* Time Diet: the notification scheduling engine.                          *)
(*                                                                         *)
(*  - the deriver  scheduleBlockNotifications  (utils/notifications.ts)    *)
(*  - the store's schedule mutations           (store/index.ts)            *)
(*  - the rescheduling effect of useNotifications and its cleanup          *)
(*  - the push server as seen through pushNotificationManager              *)
(*                                                                         *)
(* Timestamps are milliseconds.  A date string 'yyyy-MM-dd' is the number  *)
(* of the local calendar day, so that the day a timestamp falls on is      *)
(* t \div DayMs.                                                           *)
(***************************************************************************)
EXTENDS Integers, Sequences, FiniteSets, TLC

\* ------------------------------------------------------------------ time
\* store/index.ts:421  block.start.getTime() + minutes * 60000
MinMs == 60000
HourMs == 60 * MinMs
DayMs == 24 * HourMs

\* new Date(`${date}T${hh}:${mm}:00`)  (store/index.ts:269)
At(date, hh, mm) == date * DayMs + hh * HourMs + mm * MinMs

\* date-fns addMinutes(d, n)
addMinutes(t, n) == t + n * MinMs

\* date-fns format(t, 'HH:mm'): the wall-clock hour and minute of t, as the
\* pair hour * 100 + minute (seconds and milliseconds are dropped).
formatHHmm(t) == ((t % DayMs) \div HourMs) * 100 + ((t % HourMs) \div MinMs)

\* date-fns format(t, 'yyyy-MM-dd') on local time: the calendar day of t.
formatDate(t) == t \div DayMs

\* the value of an absent optional field (completedAt: undefined, null refs)
Undefined == 0 - 1

\* notifications.ts:130  `date: date`: the day string an intent is stamped with
\* a variant of the date stamp against which date integrity is tried
DateOfTime(date, scheduledTime) == formatDate(scheduledTime)

IntentDate(date, scheduledTime) == date

\* ---------------------------------------------------------------- intents
\* NotificationQueue (types): every intent carries the same fields; an
\* absent isEarlyWarning is FALSE, as scheduleNotificationsPush reads it.
Intent(prefix, blockId, scheduledTime, titleText, titleRef, bodyText, bodyRef, bodyNum, isEarlyWarning, date, notificationType) ==
    [ id               |-> [prefix |-> prefix, blockId |-> blockId],
      blockId          |-> blockId,
      scheduledTime    |-> scheduledTime,
      title            |-> [text |-> titleText, ref |-> titleRef],
      body             |-> [text |-> bodyText, ref |-> bodyRef, num |-> bodyNum],
      isEarlyWarning   |-> isEarlyWarning,
      date             |-> IntentDate(date, scheduledTime),
      notificationType |-> notificationType ]

\* notifications.ts:123-132   id `block-wrap-${block.id}`
WrapUpIntent(block, nextBlock, earlyWarningMinutes, date) ==
    Intent("block-wrap", block.id, addMinutes(block.end, -earlyWarningMinutes),
           "Wrap up", block.title,
           "Next: .. in .. minutes", nextBlock.title, earlyWarningMinutes,
           TRUE, date, "early-warning")

\* notifications.ts:141-149, 190-198, 203-211   id `block-start-${b.id}`
StartIntent(b, date) ==
    Intent("block-start", b.id, b.start,
           "Time for", b.title,
           "Starting now until", "", formatHHmm(b.end),
           FALSE, date, "block-start")

\* notifications.ts:160-168   id `block-end-${block.id}`
EndIntent(block, date) ==
    Intent("block-end", block.id, block.end,
           "How did it go?", "",
           "Mark as complete or skipped", block.title, 0,
           FALSE, date, "block-end")

\* notifications.ts:175-184   id `block-warning-${nextBlock.id}`
WarningIntent(nextBlock, earlyWarningMinutes, date) ==
    Intent("block-warning", nextBlock.id, addMinutes(nextBlock.start, -earlyWarningMinutes),
           "Coming up", nextBlock.title,
           "Starting in .. minutes", "", earlyWarningMinutes,
           TRUE, date, "early-warning")

\* variants of the deriver's tests against which the properties are tried
AlwaysDue(earlyWarningTime, now) == TRUE

NeverContiguous(blocks, index) == FALSE

NeverDue(nextBlock, now) == FALSE

ContiguousOrOverlapping(blocks, index) ==
    /\ index + 1 <= Len(blocks)
    /\ blocks[index].end >= blocks[index + 1].start

AlwaysFuture(block, now) == TRUE

StartAndEndPass(block, date, now) == << StartIntent(block, date), EndIntent(block, date) >>

\* ---------------------------------------------------------------- deriver
\* notifications.ts:98    if (block.end <= now) return
\* a variant that also passes over every block already completed or skipped
IsPastOrMarked(block, now) == block.end <= now \/ block.status # "planned"

IsPastBlock(block, now) == block.end <= now

\* notifications.ts:103-104
IsContiguous(blocks, index) ==
    /\ index + 1 <= Len(blocks)
    /\ blocks[index].end = blocks[index + 1].start

\* notifications.ts:107
IsFutureBlock(block, now) == block.start > now

\* notifications.ts:122 and 174   if (earlyWarningTime > now)
EarlyWarningDue(earlyWarningTime, now) == earlyWarningTime > now

\* a variant that announces the next block whenever there is one
NextAlwaysDue(nextBlock, now) == TRUE

\* notifications.ts:140 and 189   nextBlock.start > now
NextStartDue(nextBlock, now) == nextBlock.start > now

Opt(cond, x) == IF cond THEN <<x>> ELSE <<>>

\* notifications.ts:117-154   SMART-MERGE branch
SmartMergePass(block, nextBlock, earlyWarningMinutes, date, now) ==
    LET wrap  == WrapUpIntent(block, nextBlock, earlyWarningMinutes, date)
        start == StartIntent(nextBlock, date)
    IN  Opt(EarlyWarningDue(wrap.scheduledTime, now),
            wrap)
        \o Opt(NextStartDue(nextBlock, now),
            start)

\* notifications.ts:155-199   NON-CONTIGUOUS branch
NonContiguousPass(blocks, index, earlyWarningMinutes, date, now) ==
    LET block   == blocks[index]
        hasNext == index + 1 <= Len(blocks)
        next    == blocks[index + 1]
        end     == EndIntent(block, date)
    IN  Opt(block.end > now, end)
        \o (IF hasNext /\ earlyWarningMinutes > 0
            THEN LET warn == WarningIntent(next, earlyWarningMinutes, date)
                 IN  Opt(EarlyWarningDue(warn.scheduledTime, now),
                         warn)
            ELSE <<>>)
        \o (IF hasNext
            THEN LET start == StartIntent(next, date)
                 IN  Opt(NextStartDue(next, now),
                         start)
            ELSE <<>>)

\* notifications.ts:200-213   contiguous, no early warning
StartOnlyPass(block, date, now) ==
    LET start == StartIntent(block, date)
    IN  Opt(block.start > now, start)

\* notifications.ts:96-214   the body of blocks.forEach((block, index) => ...)
BlockPass(blocks, index, earlyWarningMinutes, date, now) ==
    LET block == blocks[index]
    IN  IF IsPastBlock(block, now) THEN <<>>
        ELSE IF IsContiguous(blocks, index) /\ earlyWarningMinutes > 0 /\ IsFutureBlock(block, now)
             THEN SmartMergePass(block, blocks[index + 1], earlyWarningMinutes, date, now)
        ELSE IF ~IsContiguous(blocks, index) /\ IsFutureBlock(block, now)
             THEN NonContiguousPass(blocks, index, earlyWarningMinutes, date, now)
        ELSE IF IsFutureBlock(block, now)
             THEN StartOnlyPass(block, date, now)
        ELSE <<>>

RECURSIVE PassesFrom(_, _, _, _, _)
PassesFrom(blocks, index, earlyWarningMinutes, date, now) ==
    IF index > Len(blocks) THEN <<>>
    ELSE BlockPass(blocks, index, earlyWarningMinutes, date, now)
         \o PassesFrom(blocks, index + 1, earlyWarningMinutes, date, now)

\* notifications.ts:81-222
scheduleBlockNotifications(blocks, earlyWarningMinutes, date, now) ==
    PassesFrom(blocks, 1, earlyWarningMinutes, date, now)

Range(s) == {s[i] : i \in DOMAIN s}

\* ------------------------------------------------------------ bounds, inputs
\* user operations explored per run of the app
MaxOps == 2
\* reschedule runs (scheduleNotificationsAsync calls) explored
MaxRuns == 2
\* half-second clock instants after the start of the session
FineTicks == 2
\* longest block list handed to the deriver on its own
MaxDeriveLen == 3
MaxClicks == 3

\* Settings.earlyWarningMinutes: "0 or 5" (types)
Leads == {0, 5}
\* the snooze buttons of the block card (+5min) and of the notification (5)
SnoozeMinutes == {5}
\* the calendar days of the model; the session starts on day 1
Dates == {0, 1}
SessionStart == At(1, 8, 0)
\* a late instant of the same day: 23:46, after the first wrap-up time
LateInstant == At(1, 23, 46)
Instants == {SessionStart + 500 * k : k \in 0..FineTicks} \cup {LateInstant}
NewTitles == {"Renamed"}
Statuses == {"completed", "skipped"}

\* Template blocks (TimeBlock: id, title, startTime, endTime): the last two
\* blocks of an evening template, contiguous at 23:50.
TemplateIds == {"evening"}
TemplateBlocks(templateId) ==
    << [id |-> "p", title |-> "Plan", startTime |-> <<23, 40>>, endTime |-> <<23, 50>>],
       [id |-> "l", title |-> "Lights", startTime |-> <<23, 50>>, endTime |-> <<23, 58>>] >>

VARIABLES
    clock,                \* Date.now()
    dbSchedules,          \* IndexedDB store 'schedules', by date
    currentSchedule,      \* store.currentSchedule
    settings,             \* store.settings (the two fields the effect reads)
    cleanupFn,            \* the last effect run returned its cleanup function
    timeoutIds,           \* useRef<number[]>
    lastScheduledDate,    \* useRef<string | null>
    schedulingInProgress, \* useRef(false)
    lastScheduleTime,     \* useRef<number>(0)
    runs,                 \* the scheduleNotificationsAsync calls and where each stands
    serverPending,        \* what the push server holds scheduled
    cleanupCancels,       \* clear-scheduled requests of cleanups still in flight
    dbNotifications,      \* IndexedDB store 'notifications', keyed by id
    timers,               \* pending window.setTimeout callbacks
    shown,                \* intents shown by the local mechanism
    ops,                  \* user operations so far
    lastOp,               \* the latest user operation
    storeError,           \* store.error
    appOpen,              \* an app window is open
    displayed,            \* notifications the service worker shows
    inbox,                \* messages posted to the window, not yet dispatched
    lastClick,            \* the latest click on a notification
    scheduleRecords,      \* IndexedDB store 'schedules', its records keyed by id
    saveCalls,            \* the updateSchedule calls of block mutations, in the order issued
    testCall,             \* the scheduleTestNotification call and where it stands
    reminders,            \* the daily reminders: the two refs, the timers, the calls in flight, what was shown
    tZone, tIn, tOut, tPc, \* the time conversions called on their own
    dBlocks, dLead, dDate, dNow, dOut, dPc   \* the deriver called on its own

cvars == << clock, dbSchedules, currentSchedule, settings, cleanupFn,
            timeoutIds, lastScheduledDate, schedulingInProgress, lastScheduleTime,
            runs, serverPending, cleanupCancels, dbNotifications, timers, shown, ops, lastOp, storeError >>
dvars == << dBlocks, dLead, dDate, dNow, dOut, dPc >>
svars == << appOpen, displayed, inbox, lastClick >>
pvars == << scheduleRecords >>
tvars == << tZone, tIn, tOut, tPc >>
mvars == << saveCalls, testCall, reminders >>
avars == << pvars, tvars, mvars >>
vars == << cvars, dvars, svars, avars >>

\* ------------------------------------------------------------------ store
NoSchedule == [date |-> Undefined, templateId |-> "", blocks |-> <<>>]

\* store/index.ts:260-274   the schedule a template yields for a date
ScheduleFromTemplate(templateId, date) ==
    LET tb == TemplateBlocks(templateId)
    IN  [ date       |-> date,
          templateId |-> templateId,
          blocks     |-> [ i \in DOMAIN tb |->
                [ id          |-> [ref |-> tb[i].id, date |-> date],
                  title       |-> tb[i].title,
                  start       |-> At(date, tb[i].startTime[1], tb[i].startTime[2]),
                  end         |-> At(date, tb[i].endTime[1], tb[i].endTime[2]),
                  status      |-> "planned",
                  completedAt |-> Undefined ] ] ]

\* time.ts getCurrentDateString(): the local calendar day of now
getCurrentDateString(now) == formatDate(now)

\* store/index.ts:335-339
CompleteOrSkip(block, status, now) ==
    [block EXCEPT !.status = status,
                  !.completedAt = IF status = "completed" THEN now ELSE Undefined]

\* a variant of the reset that leaves the completion timestamp
ResetStatusOnly(block) == [block EXCEPT !.status = "planned"]

\* store/index.ts:395-399
ResetStatus(block) == [block EXCEPT !.status = "planned", !.completedAt = Undefined]

\* a variant of the snooze that moves the start only
SnoozedStartOnly(block, minutes) == [block EXCEPT !.start = block.start + minutes * MinMs]

\* store/index.ts:419-426
Snoozed(block, minutes) ==
    [block EXCEPT !.start = block.start + minutes * MinMs,
                  !.end   = block.end + minutes * MinMs]

\* store/index.ts:359-363
Retitled(block, newTitle) == [block EXCEPT !.title = newTitle]

BlockIds(schedule) == {schedule.blocks[i].id : i \in DOMAIN schedule.blocks}

\* ------------------------------------------------------- the effect's guards
\* part_014:60
NothingToSchedule(schedule, st) == ~st.notificationsEnabled \/ schedule = NoSchedule

\* part_014:66-70   only today's schedule is scheduled
NotTodaysSchedule(schedule, now) == schedule.date # getCurrentDateString(now)

\* part_014:79
NoKey == [date |-> Undefined, count |-> 0, lead |-> 0]
ScheduleKey(schedule, st) ==
    [date |-> schedule.date, count |-> Len(schedule.blocks), lead |-> st.earlyWarningMinutes]

\* part_014:87   if (now - lastScheduleTime.current < 1000)
\* a variant without the debounce window
NeverTooSoon(now, last) == FALSE

TooSoon(now, last) == now - last < 1000

\* notifications.ts:282-288   clearTimeout of every id of the list
clearScheduledNotifications(pending, ids) == {t \in pending : t.id \notin ids}

IdleRun == [pc |-> "idle", date |-> Undefined, blocks |-> <<>>, lead |-> 0,
            notifications |-> <<>>, i |-> 0, derivedAt |-> Undefined,
            pushSuccess |-> FALSE, startedAt |-> Undefined]
RunIds == 1..MaxRuns
InFlight(r) == runs[r].pc \notin {"idle", "done"}
FreeRuns == {r \in RunIds : runs[r].pc = "idle"}

\* part_014:144-151   the cleanup of the previous effect run: what it leaves
\* in the refs, the timers, the request queue and the persisted queue
CleanupResult ==
    IF cleanupFn
    THEN [ timers   |-> clearScheduledNotifications(timers, timeoutIds),
           cancels  |-> cleanupCancels + 1,
           queue    |-> {},
           key      |-> NoKey,
           inFlight |-> FALSE ]
    ELSE [ timers   |-> timers,
           cancels  |-> cleanupCancels,
           queue    |-> dbNotifications,
           key      |-> lastScheduledDate,
           inFlight |-> schedulingInProgress ]

\* part_014:59-90   the effect body's guards, read after the cleanup ran
EffectPasses(schedule, st, now, inFlight, key, last) ==
    /\ ~NothingToSchedule(schedule, st)
    /\ ~NotTodaysSchedule(schedule, now)
    /\ ~inFlight
    /\ key # ScheduleKey(schedule, st)
    /\ ~TooSoon(now, last)

\* part_014:59-152   React runs the cleanup of the previous effect run, then the
\* effect body, whenever one of [currentSchedule, notificationsEnabled,
\* earlyWarningMinutes] changed; the body reads the new store state.
Effect(changed, schedule, st) ==
    IF ~changed
    THEN UNCHANGED << cleanupFn, timeoutIds, lastScheduledDate, schedulingInProgress,
                      lastScheduleTime, runs, cleanupCancels, dbNotifications, timers >>
    ELSE LET c == CleanupResult
         IN  /\ cleanupCancels' = c.cancels
             /\ dbNotifications' = c.queue
             /\ IF EffectPasses(schedule, st, clock, c.inFlight, c.key, lastScheduleTime)
                THEN \* part_014:92-102 and 142: the run starts and reaches its first await
                     /\ FreeRuns # {}
                     /\ LET r == CHOOSE x \in FreeRuns : \A y \in FreeRuns : x <= y
                        IN  runs' = [runs EXCEPT ![r] =
                                [IdleRun EXCEPT !.pc = "cancel",
                                                !.date = schedule.date,
                                                !.blocks = schedule.blocks,
                                                !.lead = st.earlyWarningMinutes,
                                                !.startedAt = clock]]
                     /\ schedulingInProgress' = TRUE
                     /\ lastScheduledDate' = ScheduleKey(schedule, st)
                     /\ lastScheduleTime' = clock
                     /\ timers' = clearScheduledNotifications(c.timers, timeoutIds)
                     /\ timeoutIds' = {}
                     /\ cleanupFn' = TRUE
                ELSE /\ schedulingInProgress' = c.inFlight
                     /\ lastScheduledDate' = c.key
                     /\ timers' = c.timers
                     /\ cleanupFn' = FALSE
                     /\ UNCHANGED << runs, lastScheduleTime, timeoutIds >>

\* -------------------------------------------------------- user operations
NoBlock == [ref |-> "", date |-> Undefined]

\* store/index.ts:348-351 (and the catch of every other store action): the
\* error is caught and recorded in store.error, the returned promise resolves
StoreOutcome(failed) == "resolved"

NoOp == [name |-> "", date |-> Undefined, loaded |-> FALSE, blockId |-> NoBlock,
         status |-> "", minutes |-> 0, wrote |-> FALSE, failed |-> FALSE,
         outcome |-> "resolved"]

\* store/index.ts:326   set({ error: ... 'Failed to update schedule' })
SaveError == "Failed to update schedule"

\* one call of a store action: wrote tells that it wrote the schedules store,
\* failed that saveSchedule threw
UserOp(name, date, blockId, status, minutes, wrote, failed) ==
    /\ ops < MaxOps
    /\ ops' = ops + 1
    /\ storeError' = IF failed THEN SaveError ELSE storeError
    /\ lastOp' = [name |-> name, date |-> date,
                  loaded |-> currentSchedule # NoSchedule /\ currentSchedule.date = date,
                  blockId |-> blockId, status |-> status, minutes |-> minutes,
                  wrote |-> wrote, failed |-> failed, outcome |-> StoreOutcome(failed)]

\* what no store operation touches
StoreFrame == UNCHANGED << clock, serverPending, shown, dvars >>

\* store/index.ts:296-312
LoadScheduleForDate(date) ==
    /\ UserOp("loadScheduleForDate", date, NoBlock, "", 0, FALSE, FALSE)
    /\ currentSchedule' = dbSchedules[date]
    /\ Effect(~(currentSchedule = NoSchedule /\ dbSchedules[date] = NoSchedule), dbSchedules[date], settings)
    /\ UNCHANGED << dbSchedules, settings >>
    /\ StoreFrame

\* store/index.ts:253-293
ApplyTemplateToDate(templateId, date) ==
    LET schedule == ScheduleFromTemplate(templateId, date)
    IN  /\ UserOp("applyTemplateToDate", date, NoBlock, "", 0, TRUE, FALSE)
        /\ dbSchedules' = [dbSchedules EXCEPT ![date] = schedule]
        /\ IF date = getCurrentDateString(clock)
           THEN currentSchedule' = schedule /\ Effect(TRUE, schedule, settings)
           ELSE UNCHANGED currentSchedule /\ Effect(FALSE, currentSchedule, settings)
        /\ UNCHANGED settings
        /\ StoreFrame

\* a store action that returns before it changes anything
StoreUnchanged ==
    /\ UNCHANGED << dbSchedules, currentSchedule, settings >>
    /\ Effect(FALSE, currentSchedule, settings)
    /\ StoreFrame

\* the store set before the schedule is saved
UpdateScheduleOptimistic(schedule, saved) ==
    /\ dbSchedules' = IF saved THEN [dbSchedules EXCEPT ![schedule.date] = schedule] ELSE dbSchedules
    /\ IF currentSchedule # NoSchedule /\ schedule.date = currentSchedule.date
       THEN currentSchedule' = schedule /\ Effect(TRUE, schedule, settings)
       ELSE UNCHANGED currentSchedule /\ Effect(FALSE, currentSchedule, settings)
    /\ UNCHANGED settings
    /\ StoreFrame

\* store/index.ts:314-328   saveSchedule, then the store when the date is
\* loaded; when saveSchedule throws, nothing but store.error changes
UpdateSchedule(schedule, saved) ==
    IF saved
    THEN /\ dbSchedules' = [dbSchedules EXCEPT ![schedule.date] = schedule]
         /\ IF currentSchedule # NoSchedule /\ schedule.date = currentSchedule.date
            THEN currentSchedule' = schedule /\ Effect(TRUE, schedule, settings)
            ELSE UNCHANGED currentSchedule /\ Effect(FALSE, currentSchedule, settings)
         /\ UNCHANGED settings
         /\ StoreFrame
    ELSE StoreUnchanged

\* store/index.ts:333   if (!currentSchedule) return
NothingLoaded == currentSchedule = NoSchedule

\* store/index.ts:330-352
UpdateBlockStatus(blockId, status, saved) ==
    /\ UserOp("updateBlockStatus", currentSchedule.date, blockId, status, 0,
              ~NothingLoaded /\ saved, ~NothingLoaded /\ ~saved)
    /\ IF NothingLoaded
       THEN StoreUnchanged
       ELSE LET updatedBlocks == [i \in DOMAIN currentSchedule.blocks |->
                    IF currentSchedule.blocks[i].id = blockId
                    THEN CompleteOrSkip(currentSchedule.blocks[i], status, clock)
                    ELSE currentSchedule.blocks[i]]
            IN  UpdateSchedule([currentSchedule EXCEPT !.blocks = updatedBlocks], saved)

\* store/index.ts:354-370
UpdateBlockTitle(blockId, newTitle, saved) ==
    /\ UserOp("updateBlockTitle", currentSchedule.date, blockId, "", 0,
              ~NothingLoaded /\ saved, ~NothingLoaded /\ ~saved)
    /\ IF NothingLoaded
       THEN StoreUnchanged
       ELSE LET updatedBlocks == [i \in DOMAIN currentSchedule.blocks |->
                    IF currentSchedule.blocks[i].id = blockId
                    THEN Retitled(currentSchedule.blocks[i], newTitle)
                    ELSE currentSchedule.blocks[i]]
            IN  UpdateSchedule([currentSchedule EXCEPT !.blocks = updatedBlocks], saved)

\* store/index.ts:390-412
ResetBlockStatus(blockId, saved) ==
    /\ UserOp("resetBlockStatus", currentSchedule.date, blockId, "", 0,
              ~NothingLoaded /\ saved, ~NothingLoaded /\ ~saved)
    /\ IF NothingLoaded
       THEN StoreUnchanged
       ELSE LET updatedBlocks == [i \in DOMAIN currentSchedule.blocks |->
                    IF currentSchedule.blocks[i].id = blockId
                    THEN ResetStatus(currentSchedule.blocks[i])
                    ELSE currentSchedule.blocks[i]]
            IN  UpdateSchedule([currentSchedule EXCEPT !.blocks = updatedBlocks], saved)

\* store/index.ts:414-433
SnoozeBlock(blockId, minutes, saved) ==
    /\ UserOp("snoozeBlock", currentSchedule.date, blockId, "", minutes,
              ~NothingLoaded /\ saved, ~NothingLoaded /\ ~saved)
    /\ IF NothingLoaded
       THEN StoreUnchanged
       ELSE LET updatedBlocks == [i \in DOMAIN currentSchedule.blocks |->
                    IF currentSchedule.blocks[i].id = blockId
                    THEN Snoozed(currentSchedule.blocks[i], minutes)
                    ELSE currentSchedule.blocks[i]]
            IN  UpdateSchedule([currentSchedule EXCEPT !.blocks = updatedBlocks], saved)

\* store/index.ts:435-465
ClearDaySchedule(date) ==
    /\ UserOp("clearDaySchedule", date, NoBlock, "", 0, TRUE, FALSE)
    /\ dbSchedules' = [dbSchedules EXCEPT ![date] = NoSchedule]
    /\ IF currentSchedule # NoSchedule /\ date = currentSchedule.date
       THEN currentSchedule' = NoSchedule /\ Effect(TRUE, NoSchedule, settings)
       ELSE UNCHANGED currentSchedule /\ Effect(FALSE, currentSchedule, settings)
    /\ UNCHANGED settings
    /\ StoreFrame

\* store/index.ts:521-531, SettingsView handleNotificationToggle
ToggleNotifications ==
    /\ UserOp("handleNotificationToggle", currentSchedule.date, NoBlock, "", 0, FALSE, FALSE)
    /\ settings' = [settings EXCEPT !.notificationsEnabled = ~settings.notificationsEnabled]
    /\ Effect(TRUE, currentSchedule, [settings EXCEPT !.notificationsEnabled = ~settings.notificationsEnabled])
    /\ UNCHANGED << dbSchedules, currentSchedule >>
    /\ StoreFrame

\* store/index.ts:521-531, SettingsView handleEarlyWarningChange
SetEarlyWarning(minutes) ==
    /\ UserOp("handleEarlyWarningChange", currentSchedule.date, NoBlock, "", 0, FALSE, FALSE)
    /\ minutes # settings.earlyWarningMinutes
    /\ settings' = [settings EXCEPT !.earlyWarningMinutes = minutes]
    /\ Effect(TRUE, currentSchedule, [settings EXCEPT !.earlyWarningMinutes = minutes])
    /\ UNCHANGED << dbSchedules, currentSchedule >>
    /\ StoreFrame

\* time passes, to one of the given instants
TimePasses(instants) ==
    /\ \E t \in instants : t > clock /\ clock' = t
    /\ UNCHANGED << dbSchedules, currentSchedule, settings, cleanupFn, timeoutIds,
                    lastScheduledDate, schedulingInProgress, lastScheduleTime, runs,
                    serverPending, cleanupCancels, dbNotifications, timers, shown, ops, lastOp, storeError, dvars, svars, avars >>

Tick == TimePasses(Instants)

\* ------------------------------------------------ the asynchronous run
\* storage.ts:214-217   db.put('notifications', n): keyed by id
PutNotification(queue, n) == {m \in queue : m.id # n.id} \cup {n}

\* what a run's step leaves alone
RunFrame == UNCHANGED << clock, dbSchedules, currentSchedule, settings, cleanupFn,
                         lastScheduledDate, lastScheduleTime, cleanupCancels, ops, lastOp, storeError, dvars, svars, avars >>

\* pushNotifications.ts:233-251   POST /clear-scheduled reaches the server
\* (ok) or fails; the caller goes on either way
ServerClear(ok) == IF ok THEN {} ELSE serverPending

\* pushNotifications.ts:200-231   POST /schedule-bulk: the server adds the
\* batch to what it holds, which is why scheduleNotificationsPush sends a clear
\* request first (notifications.ts:231-233)
ServerBulk(batch) == serverPending \cup batch

\* part_014:102-106   await clearScheduledPushNotifications() returns; the run
\* calls clearNotifications()
CancelDone(r, ok) ==
    /\ runs[r].pc = "cancel"
    /\ serverPending' = ServerClear(ok)
    /\ dbNotifications' = {}
    /\ runs' = [runs EXCEPT ![r].pc = "clearq"]
    /\ UNCHANGED << timeoutIds, schedulingInProgress, timers, shown >>
    /\ RunFrame

\* part_014:106-123   await clearNotifications() returns; the run derives the
\* batch and saves its first intent, or goes on to the push system
ClearQueueDone(r) ==
    /\ runs[r].pc = "clearq"
    /\ LET notifications == scheduleBlockNotifications(runs[r].blocks, runs[r].lead, runs[r].date, clock)
       IN  /\ runs' = [runs EXCEPT ![r].notifications = notifications,
                                   ![r].derivedAt = clock,
                                   ![r].i = IF notifications = <<>> THEN 0 ELSE 1,
                                   ![r].pc = IF notifications = <<>> THEN "pushclear" ELSE "save"]
           /\ dbNotifications' = IF notifications = <<>> THEN dbNotifications
                                 ELSE PutNotification(dbNotifications, notifications[1])
    /\ UNCHANGED << serverPending, timeoutIds, schedulingInProgress, timers, shown >>
    /\ RunFrame

\* a variant of the save loop that goes on to the push system after the first
\* saved intent
SaveSkipped(r) ==
    /\ runs[r].pc = "save"
    /\ runs' = [runs EXCEPT ![r].pc = "pushclear"]
    /\ UNCHANGED << dbNotifications, serverPending, timeoutIds, schedulingInProgress, timers, shown >>
    /\ RunFrame

\* part_014:116-123   await saveNotification(n) returns; the next intent is
\* saved, or scheduleNotificationsPush sends its clear request
SaveDone(r) ==
    /\ runs[r].pc = "save"
    /\ IF runs[r].i < Len(runs[r].notifications)
       THEN /\ dbNotifications' = PutNotification(dbNotifications, runs[r].notifications[runs[r].i + 1])
            /\ runs' = [runs EXCEPT ![r].i = runs[r].i + 1]
       ELSE /\ runs' = [runs EXCEPT ![r].pc = "pushclear"]
            /\ UNCHANGED dbNotifications
    /\ UNCHANGED << serverPending, timeoutIds, schedulingInProgress, timers, shown >>
    /\ RunFrame

\* notifications.ts:232-247   the clear request of scheduleNotificationsPush
\* returns; its result is not read; the bulk request is sent
PushClearDone(r, ok) ==
    /\ runs[r].pc = "pushclear"
    /\ serverPending' = ServerClear(ok)
    /\ runs' = [runs EXCEPT ![r].pc = "pushbulk"]
    /\ UNCHANGED << dbNotifications, timeoutIds, schedulingInProgress, timers, shown >>
    /\ RunFrame

\* notifications.ts:265-277   scheduleNotification: a timer, or shown at once
\* when the time has passed
NeverLate(n, now) == FALSE

IsLate(n, now) == n.scheduledTime - now <= 0

FallbackTimers(r, now) ==
    { [id |-> [run |-> r, i |-> k], notification |-> runs[r].notifications[k]] :
        k \in {j \in DOMAIN runs[r].notifications : ~IsLate(runs[r].notifications[j], now)} }

FallbackShown(r, now) ==
    { runs[r].notifications[k] :
        k \in {j \in DOMAIN runs[r].notifications : IsLate(runs[r].notifications[j], now)} }

\* part_014:123-139   scheduleNotificationsPush returns pushSuccess
\* a run whose last request sends it back to its first step
PushBulkRestarts(r, ok) ==
    /\ runs[r].pc = "pushbulk"
    /\ runs' = [runs EXCEPT ![r].pc = "cancel"]
    /\ UNCHANGED << serverPending, timers, shown, timeoutIds, schedulingInProgress,
                    dbNotifications >>
    /\ RunFrame

PushBulkDone(r, ok) ==
    /\ runs[r].pc = "pushbulk"
    /\ IF ok
       THEN /\ serverPending' = ServerBulk(Range(runs[r].notifications))
            /\ UNCHANGED << timers, timeoutIds, shown >>
       ELSE /\ timers' = timers \cup FallbackTimers(r, clock)
            /\ timeoutIds' = {t.id : t \in FallbackTimers(r, clock)}
            /\ shown' = shown \cup FallbackShown(r, clock)
            /\ UNCHANGED serverPending
    /\ schedulingInProgress' = FALSE
    /\ runs' = [runs EXCEPT ![r].pc = "done", ![r].pushSuccess = ok]
    /\ UNCHANGED dbNotifications
    /\ RunFrame

\* part_014:146   the cleanup's clearScheduledPushNotifications(), not awaited,
\* reaches the server or fails
CleanupCancelDone(ok) ==
    /\ cleanupCancels > 0
    /\ cleanupCancels' = cleanupCancels - 1
    /\ serverPending' = ServerClear(ok)
    /\ UNCHANGED << clock, dbSchedules, currentSchedule, settings, cleanupFn, timeoutIds,
                    lastScheduledDate, schedulingInProgress, lastScheduleTime, runs,
                    dbNotifications, timers, shown, ops, lastOp, storeError, dvars, svars, avars >>

\* notifications.ts:274-276   a timer's callback runs once its delay is over
TimerFire ==
    /\ \E t \in timers :
          /\ t.notification.scheduledTime <= clock
          /\ timers' = timers \ {t}
          /\ shown' = shown \cup {t.notification}
    /\ UNCHANGED << clock, dbSchedules, currentSchedule, settings, cleanupFn, timeoutIds,
                    lastScheduledDate, schedulingInProgress, lastScheduleTime, runs,
                    serverPending, cleanupCancels, dbNotifications, ops, lastOp, storeError, dvars, svars, avars >>

\* ------------------------------------------------------------------ specs
\* ------------------------------------------------------- service worker
\* sw-push.js holds three successive versions of the worker one after the
\* other (const precacheManifest is declared at line 6 and again at line 124,
\* so they cannot load as one script); the model follows the version of lines
\* 119-313, the one that gives a notification its actions by type.

NoClick == [seq |-> 0, action |-> "", blockId |-> NoBlock, date |-> Undefined, windowOpen |-> FALSE]

\* sw-push.js:147-169   the actions of a notification by data.notificationType
ActionsFor(notificationType) ==
    IF notificationType = "early-warning"
    THEN << "complete", "skip" >>
    ELSE IF notificationType = "block-start"
         THEN << "snooze", "open" >>
         ELSE << "open", "dismiss" >>

\* sw-push.js:171-186   showNotification(title, options): options.data carries
\* the blockId and date of the intent
ShownNotification(n) ==
    [ notificationType |-> n.notificationType,
      blockId          |-> n.blockId,
      date             |-> n.date,
      actions          |-> ActionsFor(n.notificationType) ]

\* sw-push.js:126-187   the push server sends an intent that is due; the worker
\* shows it
PushDelivered(n) ==
    /\ n \in serverPending
    /\ n.scheduledTime <= clock
    /\ serverPending' = serverPending \ {n}
    /\ displayed' = displayed \cup {ShownNotification(n)}
    /\ UNCHANGED << appOpen, inbox, lastClick >>
    /\ UNCHANGED << clock, dbSchedules, currentSchedule, settings, cleanupFn, timeoutIds,
                    lastScheduledDate, schedulingInProgress, lastScheduleTime, runs,
                    cleanupCancels, dbNotifications, timers, shown, ops, lastOp, storeError, dvars, avars >>

Message(type, blockId, date, snoozeMinutes) ==
    [type |-> type, blockId |-> blockId, date |-> date, snoozeMinutes |-> snoozeMinutes]

\* sw-push.js:202-279   what notificationclick posts to every window client
PostedMessage(action, notification) ==
    IF action = "complete"
    THEN Message("COMPLETE_TIMEBLOCK", notification.blockId, notification.date, 0)
    ELSE IF action = "skip"
         THEN Message("SKIP_TIMEBLOCK", notification.blockId, notification.date, 0)
         ELSE IF action = "snooze"
              THEN Message("SNOOZE_NOTIFICATION", notification.blockId, notification.date, 5)
              ELSE Message("NOTIFICATION_CLICKED", NoBlock, Undefined, 0)

\* sw-push.js:214-218, 274-277   openWindow('/') is called when no window
\* client exists, after complete and after a plain click only
OpensWindow(action) == action \notin {"dismiss", "skip", "snooze"}

\* store/index.ts:135-192 and part_014:59-152   a window opens: initializeApp
\* loads today's schedule and the hook's effect runs for the first time
AppLaunch ==
    LET schedule == dbSchedules[getCurrentDateString(clock)]
    IN  /\ appOpen' = TRUE
        /\ currentSchedule' = schedule
        /\ Effect(schedule # NoSchedule, schedule, settings)
        /\ UNCHANGED << dbSchedules, settings, ops, lastOp, storeError >>

AppFrame == UNCHANGED << clock, serverPending, shown, dvars >>

\* the user opens the app
OpenApp ==
    /\ ~appOpen
    /\ AppLaunch
    /\ AppFrame
    /\ UNCHANGED << displayed, inbox, lastClick, avars >>

\* sw-push.js:189-280   notificationclick
NotificationClick(notification, action) ==
    /\ notification \in displayed
    /\ lastClick.seq < MaxClicks
    /\ UNCHANGED avars
    /\ displayed' = displayed \ {notification}
    /\ lastClick' = [seq |-> lastClick.seq + 1, action |-> action,
                     blockId |-> notification.blockId, date |-> notification.date,
                     windowOpen |-> appOpen]
    /\ IF action = "dismiss"
       THEN UNCHANGED << cvars, dvars, appOpen, inbox >>
       ELSE IF appOpen
            THEN /\ inbox' = inbox \cup {PostedMessage(action, notification)}
                 /\ UNCHANGED << cvars, dvars, appOpen >>
            ELSE /\ UNCHANGED inbox
                 /\ IF OpensWindow(action)
                    THEN AppLaunch /\ AppFrame
                    ELSE UNCHANGED << cvars, dvars, appOpen >>

\* The window's listener for the worker's messages: it hands the action to the
\* store's mutation of that name (updateBlockStatus, snoozeBlock).
MessageReceived(m) ==
    /\ m \in inbox
    /\ inbox' = inbox \ {m}
    /\ UNCHANGED << appOpen, displayed, lastClick, avars >>
    /\ IF m.type = "COMPLETE_TIMEBLOCK"
       THEN UpdateBlockStatus(m.blockId, "completed", TRUE)
       ELSE IF m.type = "SKIP_TIMEBLOCK"
            THEN UpdateBlockStatus(m.blockId, "skipped", TRUE)
            ELSE IF m.type = "SNOOZE_NOTIFICATION"
                 THEN SnoozeBlock(m.blockId, m.snoozeMinutes, TRUE)
                 ELSE UNCHANGED << cvars, dvars >>

\* the record-level view of the schedules store and the time conversions are
\* followed in their own specifications only
RecordsOff == scheduleRecords = {}
ConversionsOff == tZone = "" /\ tIn = 0 /\ tOut = 0 /\ tPc = "off"
\* no test notification asked for
IdleTest == [pc |-> "idle", notification |-> NoBlock, success |-> FALSE]

\* part_014:23-24   the refs of the daily reminders at mount, no timer set
NoReminders ==
    [ checklistShown |-> FALSE, lightsOutShown |-> FALSE,
      mountedAt |-> Undefined, since |-> Undefined, checkedAt |-> Undefined, resetAt |-> Undefined,
      checks |-> 0, log |-> << >> ]

\* no updateSchedule call waiting, no test notification asked for, the daily
\* reminders left out
ExtrasOff == saveCalls = << >> /\ testCall = IdleTest /\ reminders = NoReminders
AuxOff == RecordsOff /\ ConversionsOff /\ ExtrasOff

DeriverOff ==
    /\ dBlocks = <<>> /\ dLead = 0 /\ dDate = 1 /\ dNow = SessionStart
    /\ dOut = <<>> /\ dPc = "off"

\* the app's window is open and the worker has shown nothing
WindowOpen ==
    /\ appOpen = TRUE
    /\ displayed = {}
    /\ inbox = {}
    /\ lastClick = NoClick

\* part_014:22-27   the hook's refs at mount, nothing scheduled yet
HookStart ==
    /\ clock = SessionStart
    /\ cleanupFn = FALSE
    /\ timeoutIds = {}
    /\ lastScheduledDate = NoKey
    /\ schedulingInProgress = FALSE
    /\ lastScheduleTime = 0
    /\ runs = [r \in RunIds |-> IdleRun]
    /\ serverPending = {}
    /\ cleanupCancels = 0
    /\ dbNotifications = {}
    /\ timers = {}
    /\ shown = {}
    /\ ops = 0
    /\ lastOp = NoOp
    /\ storeError = ""
    /\ WindowOpen

CoordinatorStart == HookStart /\ currentSchedule = NoSchedule

\* The app after mount: settings as persisted, schedules as stored by earlier
\* sessions, nothing loaded yet.
Init ==
    /\ AuxOff
    /\ CoordinatorStart
    /\ settings \in [notificationsEnabled : BOOLEAN, earlyWarningMinutes : Leads]
    /\ dbSchedules \in [Dates -> {NoSchedule} \cup {ScheduleFromTemplate(t, d) : t \in TemplateIds, d \in Dates}]
    /\ \A d \in Dates : dbSchedules[d] # NoSchedule => dbSchedules[d].date = d
    /\ DeriverOff

UserNext ==
    \/ \E d \in Dates : LoadScheduleForDate(d) /\ UNCHANGED << svars, avars >>
    \/ \E t \in TemplateIds, d \in Dates : ApplyTemplateToDate(t, d) /\ UNCHANGED << svars, avars >>
    \/ \E b \in BlockIds(currentSchedule), s \in Statuses : UpdateBlockStatus(b, s, TRUE) /\ UNCHANGED << svars, avars >>
    \/ \E b \in BlockIds(currentSchedule), t \in NewTitles : UpdateBlockTitle(b, t, TRUE) /\ UNCHANGED << svars, avars >>
    \/ \E b \in BlockIds(currentSchedule) : ResetBlockStatus(b, TRUE) /\ UNCHANGED << svars, avars >>
    \/ \E b \in BlockIds(currentSchedule), m \in SnoozeMinutes : SnoozeBlock(b, m, TRUE) /\ UNCHANGED << svars, avars >>
    \/ \E d \in Dates : ClearDaySchedule(d) /\ UNCHANGED << svars, avars >>
    \/ ToggleNotifications /\ UNCHANGED << svars, avars >>
    \/ \E m \in Leads : SetEarlyWarning(m) /\ UNCHANGED << svars, avars >>
    \/ Tick

RunNext(outcomes) ==
    \/ \E r \in RunIds, ok \in outcomes : CancelDone(r, ok)
    \/ \E r \in RunIds : ClearQueueDone(r)
    \/ \E r \in RunIds : SaveDone(r)
    \/ \E r \in RunIds, ok \in outcomes : PushClearDone(r, ok)
    \/ \E r \in RunIds, ok \in outcomes : PushBulkDone(r, ok)
    \/ \E ok \in outcomes : CleanupCancelDone(ok)

\* every request to the push server may fail
Next == UserNext \/ RunNext(BOOLEAN) \/ TimerFire
Spec == Init /\ [][Next]_vars

\* the push server answers every request
NextReliable == UserNext \/ RunNext({TRUE})
SpecReliable == Init /\ [][NextReliable]_vars

\* ------------------------------------------------- the deriver on its own
\* a planned block of the given day, as applyTemplateToDate builds it
DayBlock(ref, date, sh, sm, eh, em) ==
    [ id |-> [ref |-> ref, date |-> date], title |-> ref,
      start |-> At(date, sh, sm), end |-> At(date, eh, em),
      status |-> "planned", completedAt |-> Undefined ]

BlockA == DayBlock("A", 1, 9, 0, 9, 50)
BlockB == DayBlock("B", 1, 9, 50, 10, 40)
BlockC == DayBlock("C", 1, 10, 0, 10, 50)
BlockS == DayBlock("S", 1, 9, 57, 9, 59)
\* an early block, with a gap before A
BlockE == DayBlock("E", 1, 8, 10, 8, 40)
BlockPool == {BlockA, BlockB, BlockC, BlockS, BlockE}

DeriveNows == { At(1, 8, 0), At(1, 9, 20), At(1, 9, 46), At(1, 9, 50),
                At(1, 9, 56), At(1, 10, 45), At(1, 11, 0) }

\* lists of distinct blocks of the pool, in any array order
BlockLists ==
    { l \in UNION { [1..n -> BlockPool] : n \in 0..MaxDeriveLen } :
        \A i, j \in DOMAIN l : i # j => l[i] # l[j] }

\* the same blocks in the same order, each planned, completed (at the
\* session's start) or skipped
StatusVariants(blocks) ==
    { [i \in DOMAIN blocks |->
          IF st[i] = "planned" THEN ResetStatus(blocks[i])
          ELSE CompleteOrSkip(blocks[i], st[i], SessionStart)] :
      st \in [DOMAIN blocks -> {"planned"} \cup Statuses] }

StatusLists == UNION { StatusVariants(l) : l \in BlockLists }

InitDerive ==
    /\ AuxOff
    /\ CoordinatorStart
    /\ settings = [notificationsEnabled |-> FALSE, earlyWarningMinutes |-> 0]
    /\ dbSchedules = [d \in Dates |-> NoSchedule]
    /\ dBlocks \in StatusLists
    /\ dLead \in Leads
    /\ dDate = 1
    /\ dNow \in DeriveNows
    /\ dOut = <<>>
    /\ dPc = "ready"

\* notifications.ts:81-222   one call of scheduleBlockNotifications
Derive ==
    /\ dPc = "ready"
    /\ dOut' = scheduleBlockNotifications(dBlocks, dLead, dDate, dNow)
    /\ dPc' = "derived"
    /\ UNCHANGED << cvars, svars, avars, dBlocks, dLead, dDate, dNow >>

NextDerive == Derive
SpecDerive == InitDerive /\ [][NextDerive]_vars

IntentIs(n, type, time, block) ==
    /\ n.notificationType = type
    /\ n.scheduledTime = time
    /\ n.blockId = block.id

\* C5: every intent returned by scheduleBlockNotifications has scheduledTime
\* strictly greater than now, for every block list, lead and now, also when the
\* time is a block boundary minus the lead.
NoIntentInThePast ==
    dPc = "derived" => \A k \in DOMAIN dOut : dOut[k].scheduledTime > dNow

\* a short block S before C: the early warning for C (09:55) is already over at
\* 09:56 while S, C and their other intents are still ahead
WarningAlreadyOver ==
    /\ dPc = "derived"
    /\ dBlocks = << BlockS, BlockC >>
    /\ dLead = 5
    /\ dNow = At(1, 9, 56)
    /\ Len(dOut) = 3

ContiguousMergeCase ==
    /\ dPc = "derived"
    /\ dBlocks = << BlockA, BlockB >>
    /\ dLead = 5
    /\ dNow = At(1, 8, 0)

\* C6: for A(09:00-09:50), B(09:50-10:40), lead 5, now 08:00 the deriver returns
\* exactly 3 intents: the wrap-up (early-warning) at 09:45 targeting A, the
\* block-start at 09:50 targeting B and the block-end of the last block B at
\* 10:40; there is no block-end for A.
ContiguousMergeIntents ==
    ContiguousMergeCase =>
        /\ Len(dOut) = 3
        /\ IntentIs(dOut[1], "early-warning", At(1, 9, 45), BlockA)
        /\ IntentIs(dOut[2], "block-start", At(1, 9, 50), BlockB)
        /\ IntentIs(dOut[3], "block-end", At(1, 10, 40), BlockB)
        /\ \A k \in DOMAIN dOut : ~(dOut[k].notificationType = "block-end" /\ dOut[k].blockId = BlockA.id)

ContiguousMergeDerived == ContiguousMergeCase /\ Len(dOut) = 3

\* C6 as stated: exactly 2 intents in total
ContiguousMergeExactlyTwo ==
    ContiguousMergeCase =>
        /\ Len(dOut) = 2
        /\ \E k \in DOMAIN dOut : IntentIs(dOut[k], "early-warning", At(1, 9, 45), BlockA)
        /\ \E k \in DOMAIN dOut : IntentIs(dOut[k], "block-start", At(1, 9, 50), BlockB)
        /\ \A k \in DOMAIN dOut : ~(dOut[k].notificationType = "block-end" /\ dOut[k].blockId = BlockA.id)

NonContiguousCase ==
    /\ dPc = "derived"
    /\ dBlocks = << BlockA, BlockC >>
    /\ dLead = 5
    /\ dNow = At(1, 8, 0)

\* C7: for A(09:00-09:50), C(10:00-10:50), lead 5, now 08:00 the deriver returns
\* exactly 4 intents: block-end for A at 09:50, early-warning for C at 09:55,
\* block-start for C at 10:00 and the block-end of the last block C at 10:50.
NonContiguousIntents ==
    NonContiguousCase =>
        /\ Len(dOut) = 4
        /\ IntentIs(dOut[1], "block-end", At(1, 9, 50), BlockA)
        /\ IntentIs(dOut[2], "early-warning", At(1, 9, 55), BlockC)
        /\ IntentIs(dOut[3], "block-start", At(1, 10, 0), BlockC)
        /\ IntentIs(dOut[4], "block-end", At(1, 10, 50), BlockC)

NonContiguousDerived == NonContiguousCase /\ Len(dOut) = 4

\* C7 as stated: exactly 3 intents in total
NonContiguousExactlyThree ==
    NonContiguousCase =>
        /\ Len(dOut) = 3
        /\ \E k \in DOMAIN dOut : IntentIs(dOut[k], "block-end", At(1, 9, 50), BlockA)
        /\ \E k \in DOMAIN dOut : IntentIs(dOut[k], "early-warning", At(1, 9, 55), BlockC)
        /\ \E k \in DOMAIN dOut : IntentIs(dOut[k], "block-start", At(1, 10, 0), BlockC)

\* ------------------------------------------- the coordinator's properties
Today == getCurrentDateString(clock)

RunsInFlight == {r \in RunIds : InFlight(r)}

\* every run has finished and no cancel request of a cleanup is on its way
Quiescent == RunsInFlight = {} /\ cleanupCancels = 0

Batch(r) == Range(runs[r].notifications)

TimerNotifications == {t.notification : t \in timers}

\* C1: a step that makes a schedule of another day than today the loaded one
\* issues no cancel and no schedule call to the adapter and leaves today's
\* pending intents (timers, persisted queue, runs) as they were.
PastDayLeavesPendingAlone ==
    [][ ( /\ ops' = ops + 1
          /\ currentSchedule' # currentSchedule
          /\ currentSchedule' # NoSchedule
          /\ NotTodaysSchedule(currentSchedule', clock) )
        => /\ cleanupCancels' = cleanupCancels
           /\ runs' = runs
           /\ timers' = timers
           /\ dbNotifications' = dbNotifications ]_vars

MutationOps == { "updateBlockStatus", "snoozeBlock", "resetBlockStatus", "updateBlockTitle",
                 "applyTemplateToDate", "handleEarlyWarningChange" }

\* C2: with notifications enabled and today's schedule loaded, once the runs
\* after the latest mutation or lead change have finished, the adapter's pending
\* set is the deriver's output for the final schedule and the final lead.
PendingSetSynchronized ==
    ( /\ Quiescent
      /\ lastOp.name \in MutationOps
      /\ settings.notificationsEnabled
      /\ currentSchedule # NoSchedule
      /\ ~NotTodaysSchedule(currentSchedule, clock) )
    => \E t \in Instants :
          /\ t <= clock
          /\ serverPending = Range(scheduleBlockNotifications(currentSchedule.blocks,
                                      settings.earlyWarningMinutes, currentSchedule.date, t))

\* C3: at most one reschedule run is in flight at any time.
RunsSerialized == Cardinality(RunsInFlight) <= 1

\* C4: the adapter's pending set is empty or the batch of one derivation, and
\* what remains when all runs have finished was derived from the latest schedule
\* of today.
SingleAuthoritativeBatch ==
    /\ serverPending = {} \/ \E r \in RunIds : runs[r].pc = "done" /\ serverPending = Batch(r)
    /\ (Quiescent /\ serverPending # {}) =>
          \E r \in RunIds :
             /\ runs[r].pc = "done"
             /\ serverPending = Batch(r)
             /\ dbSchedules[Today] # NoSchedule
             /\ runs[r].blocks = dbSchedules[Today].blocks

\* C8: every intent a reschedule run produces, and every intent pending in the
\* adapter, the queue or a timer, carries the date of the schedule it was derived
\* from, also when its scheduledTime falls on another day.
DateIntegrity ==
    /\ \A r \in RunIds : \A k \in DOMAIN runs[r].notifications :
          runs[r].notifications[k].date = runs[r].date
    /\ \A n \in serverPending \cup dbNotifications \cup TimerNotifications \cup shown :
          n.date = n.blockId.date

\* a run derived an intent whose scheduledTime lies on another day than the
\* schedule's (the block-end of a snoozed last block)
IntentAcrossMidnight ==
    \E r \in RunIds : \E k \in DOMAIN runs[r].notifications :
       /\ formatDate(runs[r].notifications[k].scheduledTime) # runs[r].date
       /\ runs[r].notifications[k].date = runs[r].date

\* C9: after clearDaySchedule on today's loaded schedule, or after switching
\* notifications off, nothing is pending in the adapter, the timers or the queue
\* once all asynchronous work has finished.
CancelledEverywhere ==
    ( /\ Quiescent
      /\ \/ lastOp.name = "clearDaySchedule" /\ lastOp.loaded /\ lastOp.date = Today
         \/ lastOp.name = "handleNotificationToggle" /\ ~settings.notificationsEnabled )
    => /\ serverPending = {}
       /\ timers = {}
       /\ dbNotifications = {}

\* C10: the step in which scheduleNotificationsPush returns: on failure every
\* intent of the batch gets a timer, or is shown at once when its time has
\* passed; on success no timer is created.
FallbackCoversBatch ==
    [][ \A r \in RunIds :
          (runs[r].pc = "pushbulk" /\ runs'[r].pc = "done") =>
             IF runs'[r].pushSuccess
             THEN timers' = timers /\ timeoutIds' = timeoutIds /\ shown' = shown
             ELSE \A k \in DOMAIN runs[r].notifications :
                     LET n == runs[r].notifications[k]
                     IN  IF n.scheduledTime > clock
                         THEN [id |-> [run |-> r, i |-> k], notification |-> n] \in timers'
                              /\ [run |-> r, i |-> k] \in timeoutIds'
                         ELSE n \in shown' ]_vars

\* a failed batch call whose fallback gave one intent a timer and showed another
\* at once (its id is not among the run's timer ids)
FallbackTimerAndImmediate ==
    \E r \in RunIds :
       /\ runs[r].pc = "done"
       /\ ~runs[r].pushSuccess
       /\ \E k \in DOMAIN runs[r].notifications :
             /\ [run |-> r, i |-> k] \in timeoutIds
             /\ [id |-> [run |-> r, i |-> k], notification |-> runs[r].notifications[k]] \in timers
       /\ \E k \in DOMAIN runs[r].notifications :
             /\ [run |-> r, i |-> k] \notin timeoutIds
             /\ runs[r].notifications[k] \in shown


\* a user operation that changed one of the effect's dependencies
Trigger ==
    /\ ops' = ops + 1
    /\ \/ currentSchedule' # currentSchedule
       \/ settings' # settings
       \/ lastOp'.loaded /\ lastOp'.name \in MutationOps \ {"applyTemplateToDate", "handleEarlyWarningChange"}

\* C11: a trigger whose fingerprint (date, block count, lead) equals the one
\* recorded by the last reschedule does nothing: no cancel call, no new run, and
\* timers, queue and adapter batch stay as they were.
SameFingerprintDoesNothing ==
    [][ ( /\ Trigger
          /\ currentSchedule' # NoSchedule
          /\ settings'.notificationsEnabled
          /\ ScheduleKey(currentSchedule', settings') = lastScheduledDate )
        => /\ cleanupCancels' = cleanupCancels
           /\ runs' = runs
           /\ timers' = timers
           /\ dbNotifications' = dbNotifications
           /\ serverPending' = serverPending ]_vars

StartedRuns == {r \in RunIds : runs[r].pc # "idle"}

UnknownBlock == [ref |-> "x", date |-> 1]

\* TodayView offers 5 and 15 minutes
StoreSnoozeMinutes == {5, 15}

\* The app after initializeApp with the default settings (notifications off):
\* today's stored schedule is the loaded one.
InitStore ==
    /\ AuxOff
    /\ HookStart
    /\ settings = [notificationsEnabled |-> FALSE, earlyWarningMinutes |-> 0]
    /\ dbSchedules = [d \in Dates |-> ScheduleFromTemplate("evening", d)]
    /\ currentSchedule \in {NoSchedule, dbSchedules[getCurrentDateString(SessionStart)]}
    /\ DeriverOff

StoreBlockIds == BlockIds(currentSchedule) \cup {UnknownBlock}

NextStore ==
    \/ \E b \in StoreBlockIds, s \in Statuses, saved \in BOOLEAN : UpdateBlockStatus(b, s, saved) /\ UNCHANGED << svars, avars >>
    \/ \E b \in StoreBlockIds, m \in StoreSnoozeMinutes, saved \in BOOLEAN : SnoozeBlock(b, m, saved) /\ UNCHANGED << svars, avars >>
    \/ \E b \in StoreBlockIds, saved \in BOOLEAN : ResetBlockStatus(b, saved) /\ UNCHANGED << svars, avars >>
    \/ \E b \in StoreBlockIds, t \in NewTitles, saved \in BOOLEAN : UpdateBlockTitle(b, t, saved) /\ UNCHANGED << svars, avars >>
    \/ \E t \in TemplateIds, d \in Dates : ApplyTemplateToDate(t, d) /\ UNCHANGED << svars, avars >>
    \/ \E d \in Dates : LoadScheduleForDate(d) /\ UNCHANGED << svars, avars >>
    \/ Tick

SpecStore == InitStore /\ [][NextStore]_vars

\* ------------------------------------- the schedules store, record by record
\* a variant of db.put on a store without key and index: the record is added
DbAdd(records, record) == records \cup {record}

\* storage.ts:71-75, 144-147   db.put('schedules', schedule) on a store with
\* keyPath 'id' and the unique index 'by-date': the record replaces the one of
\* its key; when another key holds its date the put fails with a
\* ConstraintError and nothing is written
DbPut(records, record) ==
    IF \E r \in records : r.id # record.id /\ r.schedule.date = record.schedule.date
    THEN records
    ELSE {r \in records : r.id # record.id} \cup {record}

\* storage.ts:139-142   db.getFromIndex('schedules', 'by-date', date)
GetFromIndex(records, date) == {r \in records : r.schedule.date = date}

\* store/index.ts:443-446   db.delete('schedules', schedule.id)
DbDelete(records, id) == {r \in records : r.id # id}

\* store/index.ts:261   id: `schedule-${date}`; a loaded schedule carries the
\* id it was stored with
ScheduleId(date) == [prefix |-> "schedule", date |-> date]
ScheduleRecord(schedule) == [id |-> ScheduleId(schedule.date), schedule |-> schedule]

\* store/index.ts:253-293 down to the store's records
PersistApplyTemplate(templateId, date) ==
    /\ ApplyTemplateToDate(templateId, date)
    /\ scheduleRecords' = DbPut(scheduleRecords, ScheduleRecord(ScheduleFromTemplate(templateId, date)))
    /\ UNCHANGED << svars, tvars, mvars >>

\* store/index.ts:314-328 down to the store's records, called by a mutation of
\* the loaded schedule
PersistUpdateStatus(blockId, status) ==
    /\ UpdateBlockStatus(blockId, status, TRUE)
    /\ scheduleRecords' = IF NothingLoaded THEN scheduleRecords
                          ELSE DbPut(scheduleRecords, ScheduleRecord(currentSchedule'))
    /\ UNCHANGED << svars, tvars, mvars >>

PersistSnooze(blockId, minutes) ==
    /\ SnoozeBlock(blockId, minutes, TRUE)
    /\ scheduleRecords' = IF NothingLoaded THEN scheduleRecords
                          ELSE DbPut(scheduleRecords, ScheduleRecord(currentSchedule'))
    /\ UNCHANGED << svars, tvars, mvars >>

\* store/index.ts:435-465 down to the store's records
PersistClearDay(date) ==
    /\ ClearDaySchedule(date)
    /\ LET found == GetFromIndex(scheduleRecords, date)
       IN  scheduleRecords' = IF found = {} THEN scheduleRecords
                              ELSE DbDelete(scheduleRecords, (CHOOSE r \in found : TRUE).id)
    /\ UNCHANGED << svars, tvars, mvars >>

\* what earlier sessions stored: for each date nothing or the template's day
InitPersist ==
    /\ HookStart
    /\ settings = [notificationsEnabled |-> FALSE, earlyWarningMinutes |-> 0]
    /\ dbSchedules \in {[d \in Dates |-> IF d \in ds THEN ScheduleFromTemplate("evening", d) ELSE NoSchedule] : ds \in SUBSET Dates}
    /\ scheduleRecords = {ScheduleRecord(dbSchedules[d]) : d \in {x \in Dates : dbSchedules[x] # NoSchedule}}
    /\ currentSchedule = dbSchedules[getCurrentDateString(SessionStart)]
    /\ DeriverOff
    /\ ConversionsOff /\ ExtrasOff

NextPersist ==
    \/ \E t \in TemplateIds, d \in Dates : PersistApplyTemplate(t, d)
    \/ \E b \in BlockIds(currentSchedule), s \in Statuses : PersistUpdateStatus(b, s)
    \/ \E b \in BlockIds(currentSchedule), m \in StoreSnoozeMinutes : PersistSnooze(b, m)
    \/ \E d \in Dates : PersistClearDay(d)
    \/ \E d \in Dates : LoadScheduleForDate(d) /\ UNCHANGED << svars, avars >>

SpecPersist == InitPersist /\ [][NextPersist]_vars

\* C21: after any sequence of applyTemplateToDate, updateSchedule and
\* clearDaySchedule the store holds at most one schedule per date, and a
\* template applied to a date leaves the template's schedule as the only
\* record of that date, whatever the date held before.
OneSchedulePerDate ==
    /\ [](\A r1, r2 \in scheduleRecords : r1.schedule.date = r2.schedule.date => r1 = r2)
    /\ [][ (ops' = ops + 1 /\ lastOp'.name = "applyTemplateToDate")
            => \E t \in TemplateIds :
                 GetFromIndex(scheduleRecords', lastOp'.date)
                   = {ScheduleRecord(ScheduleFromTemplate(t, lastOp'.date))} ]_vars

\* a template was applied, as the second operation, to the day that was loaded
\* and stored, and the store holds the template's day alone
TemplateAppliedOverCompleted ==
    /\ lastOp.name = "applyTemplateToDate"
    /\ lastOp.loaded
    /\ ops = 2
    /\ scheduleRecords = {ScheduleRecord(ScheduleFromTemplate("evening", lastOp.date))}
    /\ storeError = ""

\* the block with the given id in a schedule (a block that is its own default
\* when the schedule holds none)
BlockOf(schedule, blockId) ==
    IF blockId \in BlockIds(schedule)
    THEN schedule.blocks[CHOOSE i \in DOMAIN schedule.blocks : schedule.blocks[i].id = blockId]
    ELSE [id |-> NoBlock, title |-> "", start |-> 0, end |-> 0, status |-> "", completedAt |-> Undefined]

\* the step is a call of the named store action that got as far as saveSchedule
\* and saved
SavedStep(name) ==
    /\ ops' = ops + 1
    /\ lastOp'.name = name
    /\ lastOp'.wrote

\* C13: Complete applied to a block that the previous call completed leaves the
\* status completed and keeps the completion timestamp of the first call.
SecondCompleteKeepsTimestamp ==
    [][ ( /\ SavedStep("updateBlockStatus")
          /\ lastOp'.status = "completed"
          /\ lastOp.name = "updateBlockStatus" /\ lastOp.status = "completed" /\ lastOp.wrote
          /\ lastOp'.blockId = lastOp.blockId
          /\ lastOp.blockId \in BlockIds(currentSchedule) )
        => /\ BlockOf(currentSchedule', lastOp.blockId).status = "completed"
           /\ BlockOf(currentSchedule', lastOp.blockId).completedAt
                 = BlockOf(currentSchedule, lastOp.blockId).completedAt ]_vars

\* C14: snoozeBlock(blockId, m) shifts start and end of that block by m minutes,
\* keeps its duration, start < end and its status, and leaves every other block
\* of the schedule as it was, in the store and in persistence.
SnoozeShiftsOneBlock ==
    [][ SavedStep("snoozeBlock")
        => /\ DOMAIN currentSchedule'.blocks = DOMAIN currentSchedule.blocks
           /\ dbSchedules'[currentSchedule.date] = currentSchedule'
           /\ \A i \in DOMAIN currentSchedule.blocks :
                 LET old == currentSchedule.blocks[i]
                     new == currentSchedule'.blocks[i]
                 IN  IF old.id = lastOp'.blockId
                     THEN /\ new.start = old.start + lastOp'.minutes * 60000
                          /\ new.end = old.end + lastOp'.minutes * 60000
                          /\ new.end - new.start = old.end - old.start
                          /\ new.start < new.end
                          /\ new.status = old.status
                          /\ new.completedAt = old.completedAt
                          /\ new.id = old.id /\ new.title = old.title
                     ELSE new = old ]_vars

\* a completed block snoozed by 15 minutes
CompletedBlockSnoozed ==
    /\ lastOp.name = "snoozeBlock" /\ lastOp.wrote /\ lastOp.minutes = 15
    /\ lastOp.blockId \in BlockIds(currentSchedule)
    /\ BlockOf(currentSchedule, lastOp.blockId).status = "completed"
    /\ BlockOf(currentSchedule, lastOp.blockId).start
          = BlockOf(ScheduleFromTemplate("evening", currentSchedule.date), lastOp.blockId).start + 15 * 60000

\* C15: complete, skip or snooze with a block id the loaded schedule does not
\* hold ends in a failure outcome, writes nothing and leaves the schedule as it
\* was.
UnknownBlockFails ==
    [][ ( /\ ops' = ops + 1
          /\ lastOp'.name \in {"updateBlockStatus", "snoozeBlock"}
          /\ ~NothingLoaded
          /\ lastOp'.blockId \notin BlockIds(currentSchedule) )
        => /\ lastOp'.outcome = "rejected"
           /\ ~lastOp'.wrote
           /\ currentSchedule' = currentSchedule
           /\ dbSchedules' = dbSchedules ]_vars

\* C17: when saveSchedule failed during complete, skip or snooze, the call
\* does not finish as a success.
SaveFailureReported ==
    (lastOp.name \in {"updateBlockStatus", "snoozeBlock"} /\ lastOp.failed)
    => lastOp.outcome = "rejected"

\* ------------------------------------------ notification actions on their own
\* The evening of a day whose batch was scheduled by a session of the morning:
\* the window was closed since, the push server still holds the batch.
EveningInstant == At(1, 23, 46)
EveningInstants == {EveningInstant, At(1, 23, 59)}

EveningTick == TimePasses(EveningInstants)

InitActions ==
    /\ AuxOff
    /\ clock = EveningInstant
    /\ settings = [notificationsEnabled |-> TRUE, earlyWarningMinutes |-> 5]
    /\ dbSchedules = [d \in Dates |-> ScheduleFromTemplate("evening", d)]
    /\ currentSchedule = NoSchedule
    /\ cleanupFn = FALSE
    /\ timeoutIds = {}
    /\ lastScheduledDate = NoKey
    /\ schedulingInProgress = FALSE
    /\ lastScheduleTime = 0
    /\ runs = [r \in RunIds |-> IdleRun]
    /\ serverPending = Range(scheduleBlockNotifications(dbSchedules[1].blocks, 5, 1, SessionStart))
    /\ cleanupCancels = 0
    /\ dbNotifications = serverPending
    /\ timers = {}
    /\ shown = {}
    /\ ops = 0
    /\ lastOp = NoOp
    /\ storeError = ""
    /\ appOpen = FALSE
    /\ displayed = {}
    /\ inbox = {}
    /\ lastClick = NoClick
    /\ DeriverOff

NextActions ==
    \/ OpenApp
    \/ \E d \in Dates : appOpen /\ LoadScheduleForDate(d) /\ UNCHANGED << svars, avars >>
    \/ \E n \in serverPending : PushDelivered(n)
    \/ \E n \in displayed : \E a \in Range(n.actions) \cup {""} : NotificationClick(n, a)
    \/ \E m \in inbox : MessageReceived(m)
    \/ RunNext({TRUE})
    \/ EveningTick

SpecActions == InitActions /\ [][NextActions]_vars

\* a notification of the given type is on display
Displayed(type) == \E n \in displayed : n.notificationType = type

ActionsOf(n) == Range(n.actions)

\* C18: a delivered notification offers its buttons by type: an early-warning
\* one Complete and Skip, a block-start one Snooze and Open App, a block-end one
\* Complete and Skip.
ActionsByType ==
    \A n \in displayed :
        /\ n.notificationType = "early-warning" => ActionsOf(n) = {"complete", "skip"}
        /\ n.notificationType = "block-start" => ActionsOf(n) = {"snooze", "open"}
        /\ n.notificationType = "block-end" => ActionsOf(n) = {"complete", "skip"}

\* the step is a click on a notification
ClickStep == lastClick'.seq = lastClick.seq + 1

\* the message the click of an action button stands for
ActionMessage(click) ==
    Message(IF click.action = "complete" THEN "COMPLETE_TIMEBLOCK"
            ELSE IF click.action = "skip" THEN "SKIP_TIMEBLOCK" ELSE "SNOOZE_NOTIFICATION",
            click.blockId, click.date,
            IF click.action = "snooze" THEN 5 ELSE 0)

\* C19: a click on Complete, Skip or Snooze hands the message of that action,
\* with the notification's blockId and date and snoozeMinutes 5 for snooze, to
\* an app client, whether or not a window is open at the click; a click on
\* Dismiss sends nothing.
BackgroundActionReachesClient ==
    [][ ClickStep =>
          /\ lastClick'.action \in {"complete", "skip", "snooze"}
                => ActionMessage(lastClick') \in inbox'
          /\ lastClick'.action = "dismiss" => inbox' = inbox ]_vars

\* the step hands message m to the window's listener
ReceivedStep(m) == m \in inbox /\ inbox' = inbox \ {m}

FixedZone  == [name |-> "fixed",  before |-> 0,      after |-> 0,      change |-> At(1, 2, 0)]
\* clocks go from 02:00 to 03:00 on day 1: 02:00-02:59 does not exist that day
SpringZone == [name |-> "spring", before |-> 0,      after |-> HourMs, change |-> At(1, 2, 0)]
\* clocks go from 03:00 back to 02:00 on day 1: 02:00-02:59 happens twice
AutumnZone == [name |-> "autumn", before |-> HourMs, after |-> 0,      change |-> At(1, 2, 0)]
Zones == {FixedZone, SpringZone, AutumnZone}

\* the wall clock of instant x (what getHours, getMinutes and format read)
LocalOf(zone, x) == x + (IF x < zone.change THEN zone.before ELSE zone.after)

\* the instant of a wall-clock time (what setHours stores): a time that is
\* skipped or repeated by the clock change is read with the offset before it
UTCOf(zone, local) ==
    LET early == local - zone.before
        late  == local - zone.after
    IN  IF early < zone.change THEN early
        ELSE IF late >= zone.change THEN late ELSE early

\* a variant of the formatter with the 12-hour pattern 'hh:mm'
dateToTimeString12(zone, date) ==
    LET t == formatHHmm(LocalOf(zone, date))
    IN  IF t \div 100 = 0 THEN t + 1200 ELSE IF t \div 100 > 12 THEN t - 1200 ELSE t

\* part_002:6-11   a time string is hour * 100 + minute, as formatHHmm writes it
timeStringToDate(zone, timeStr, date) ==
    LET hours   == timeStr \div 100
        minutes == timeStr % 100
        day     == formatDate(LocalOf(zone, date))
    IN  UTCOf(zone, At(day, hours, minutes))

\* part_002:16-18
dateToTimeString(zone, date) == formatHHmm(LocalOf(zone, date))

ConversionDays == {0, 1}
TimeStrings == {h * 100 + m : h \in 0..23, m \in {0, 30, 59}}
\* instants off the minute as well: 17.25 s into the minute
StampOffsets == {0, 17250}
Stamps(zone, day) ==
    {x \in {At(day, 0, 0) - HourMs + k * 30 * MinMs + o : k \in 0..49, o \in StampOffsets} :
        formatDate(LocalOf(zone, x)) = day}

InitConvert ==
    /\ CoordinatorStart
    /\ settings = [notificationsEnabled |-> FALSE, earlyWarningMinutes |-> 0]
    /\ dbSchedules = [d \in Dates |-> NoSchedule]
    /\ DeriverOff
    /\ RecordsOff /\ ExtrasOff
    /\ tZone \in Zones
    /\ tOut = 0
    /\ \E day \in ConversionDays :
         \/ tPc = "string" /\ tIn \in {[day |-> day, value |-> t, date |-> d] :
                                          t \in TimeStrings, d \in {UTCOf(tZone, At(day, 12, 0))}}
         \/ tPc = "stamp"  /\ tIn \in {[day |-> day, value |-> x, date |-> x] : x \in Stamps(tZone, day)}

\* dateToTimeString(timeStringToDate(t, d))
StringRoundTrip ==
    /\ tPc = "string"
    /\ tOut' = dateToTimeString(tZone, timeStringToDate(tZone, tIn.value, tIn.date))
    /\ tPc' = "string-done"
    /\ UNCHANGED << cvars, dvars, svars, pvars, mvars, tZone, tIn >>

\* timeStringToDate(dateToTimeString(x), d)
StampRoundTrip ==
    /\ tPc = "stamp"
    /\ tOut' = timeStringToDate(tZone, dateToTimeString(tZone, tIn.value), tIn.date)
    /\ tPc' = "stamp-done"
    /\ UNCHANGED << cvars, dvars, svars, pvars, mvars, tZone, tIn >>

NextConvert == StringRoundTrip \/ StampRoundTrip
SpecConvert == InitConvert /\ [][NextConvert]_vars

\* the instants of the day whose wall clock reads the given time string
InstantsReading(zone, day, timeStr) ==
    {x \in {At(day, timeStr \div 100, timeStr % 100) - zone.before,
            At(day, timeStr \div 100, timeStr % 100) - zone.after} :
        LocalOf(zone, x) = At(day, timeStr \div 100, timeStr % 100)}

TruncatedToMinute(x) == x - (x % MinMs)

\* C22 as stated: for every HH:MM time t of a day d the string comes back from
\* dateToTimeString(timeStringToDate(t, d)), and for every timestamp x on day d
\* timeStringToDate(dateToTimeString(x), d) is x truncated to the minute.
TimeRoundTrip ==
    /\ tPc = "string-done" => tOut = tIn.value
    /\ tPc = "stamp-done" => tOut = TruncatedToMinute(tIn.value)

\* C22, amended: the round trips hold for the times of day that the local
\* clock reads exactly once on day d (every time of a day without a clock
\* change).
TimeRoundTripReadOnce ==
    /\ ( tPc = "string-done"
         /\ Cardinality(InstantsReading(tZone, tIn.day, tIn.value)) = 1 )
       => tOut = tIn.value
    /\ ( tPc = "stamp-done"
         /\ Cardinality(InstantsReading(tZone, tIn.day, dateToTimeString(tZone, tIn.value))) = 1 )
       => tOut = TruncatedToMinute(tIn.value)

\* an afternoon time and an instant off the minute made the round trip in a
\* zone whose clock changes that night
AfternoonRoundTrip ==
    /\ tZone = SpringZone
    /\ tIn.day = 1
    /\ \/ tPc = "string-done" /\ tIn.value = 1730 /\ tOut = 1730
       \/ tPc = "stamp-done" /\ tIn.value % MinMs # 0
            /\ dateToTimeString(tZone, tIn.value) = 1730 /\ tOut = TruncatedToMinute(tIn.value)

\* ---------------------------------------------------- more on the deriver
\* C23: no two intents of one derived batch share an id, for every block list
\* and lead (0 included), contiguous or gapped.
UniqueIntentIds ==
    dPc = "derived" =>
        \A i, j \in DOMAIN dOut : i # j => dOut[i].id # dOut[j].id

\* C24: every block that starts after now has, in the derived batch, a
\* block-start intent that targets it at its start time.
BlockStartForEveryFutureBlock ==
    dPc = "derived" =>
        \A k \in DOMAIN dBlocks :
            dBlocks[k].start > dNow
            => \E i \in DOMAIN dOut : IntentIs(dOut[i], "block-start", dBlocks[k].start, dBlocks[k])

\* the intents that the pass over the block at index k added to the batch
OwnPass(k) == BlockPass(dBlocks, k, dLead, dDate, dNow)

HasNext(k) == k + 1 \in DOMAIN dBlocks

\* C25: when b has not started, lead > 0 and b.end = next.start, the pass over
\* b emits at most two intents, a wrap-up of kind early-warning at b.end - lead
\* for b and a block-start at next.start for next, so neither a block-end for
\* b nor a 'Coming up' warning for next; when the two timestamps differ the
\* pass emits no wrap-up.
SmartMergeBranch ==
    dPc = "derived" =>
        \A k \in DOMAIN dBlocks :
            (HasNext(k) /\ dBlocks[k].start > dNow /\ dLead > 0)
            => LET b == dBlocks[k]
                   next == dBlocks[k + 1]
                   pass == OwnPass(k)
               IN  IF b.end = next.start
                   THEN /\ Len(pass) <= 2
                        /\ \A i, j \in DOMAIN pass : i # j => pass[i] # pass[j]
                        /\ \A i \in DOMAIN pass :
                             \/ /\ IntentIs(pass[i], "early-warning", addMinutes(b.end, -dLead), b)
                                /\ pass[i].id.prefix = "block-wrap"
                             \/ IntentIs(pass[i], "block-start", next.start, next)
                   ELSE \A i \in DOMAIN pass : pass[i].id.prefix # "block-wrap"

\* the pass over a block that has not started and ends where the next one
\* starts emitted its two intents
SmartMergeBothEmitted ==
    /\ dPc = "derived"
    /\ \E k \in DOMAIN dBlocks :
         /\ HasNext(k) /\ dBlocks[k].start > dNow /\ dLead > 0
         /\ dBlocks[k].end = dBlocks[k + 1].start
         /\ Len(OwnPass(k)) = 2
         /\ \A i \in DOMAIN OwnPass(k) : \E j \in DOMAIN dOut : dOut[j] = OwnPass(k)[i]

\* C26: when b has not started and is contiguous with its successor but lead
\* is 0, the pass over b emits exactly one intent, a block-start at b.start for
\* b, and nothing for the successor.
ContiguousWithoutLead ==
    dPc = "derived" =>
        \A k \in DOMAIN dBlocks :
            ( /\ HasNext(k) /\ dBlocks[k].start > dNow /\ dLead = 0
              /\ dBlocks[k].end = dBlocks[k + 1].start )
            => /\ Len(OwnPass(k)) = 1
               /\ IntentIs(OwnPass(k)[1], "block-start", dBlocks[k].start, dBlocks[k])

\* A and B contiguous, lead 0, both ahead: the batch holds the start of A
ContiguousWithoutLeadDerived ==
    /\ dPc = "derived"
    /\ dLead = 0
    /\ dBlocks = << BlockA, BlockB >>
    /\ dNow < BlockA.start
    /\ \E j \in DOMAIN dOut : IntentIs(dOut[j], "block-start", BlockA.start, BlockA)

\* C27: a block that has finished (end <= now) or is in progress
\* (start <= now < end) emits no intent from its own pass, contiguous with its
\* successor or not.
StartedBlockEmitsNothing ==
    dPc = "derived" =>
        \A k \in DOMAIN dBlocks :
            dBlocks[k].start <= dNow => OwnPass(k) = <<>>

\* A is in progress and contiguous with B, which is still ahead: the batch
\* holds nothing that the pass over A would emit for B
InProgressBeforeContiguous ==
    /\ dPc = "derived"
    /\ dBlocks = << BlockA, BlockB >>
    /\ dLead = 5
    /\ BlockA.start <= dNow /\ dNow < BlockA.end
    /\ \A j \in DOMAIN dOut : dOut[j].id.prefix \notin {"block-wrap", "block-start"}

\* ------------------------------------------------- more on the coordinator
\* run r moves to the given position in this step
Reaches(r, pc) == runs[r].pc # pc /\ runs'[r].pc = pc

\* C28: inside one reschedule run the timers the hook knows are cleared, the
\* adapter's cancel call has returned and the persisted queue is cleared before
\* the deriver is called, and every intent of the derived batch has been
\* saved before the batch is handed to the delivery adapter.
RunStepsInOrder ==
    [][ \A r \in RunIds :
          \* the run starts: the known timers are cleared, the cancel call is out
          /\ Reaches(r, "cancel")
                => /\ runs[r].pc = "idle"
                   /\ \A t \in timers' : t.id \notin timeoutIds
                   /\ timeoutIds' = {}
          \* the cancel call has returned: the queue is cleared
          /\ Reaches(r, "clearq")
                => runs[r].pc = "cancel" /\ dbNotifications' = {}
          \* the deriver is called after the clearing of the queue has returned
          /\ runs'[r].derivedAt # runs[r].derivedAt
                => runs[r].pc = "clearq" /\ runs[r].notifications = <<>>
          \* the batch goes to the adapter after its last intent was saved
          /\ Reaches(r, "pushclear")
                => /\ runs[r].pc \in {"clearq", "save"}
                   /\ runs'[r].derivedAt # Undefined
                   /\ runs'[r].i = Len(runs'[r].notifications)
          /\ Reaches(r, "pushbulk") => runs[r].pc = "pushclear"
          /\ Reaches(r, "done") => runs[r].pc = "pushbulk" ]_vars

\* a run handed a batch of several intents to the adapter and finished
RunOfSeveralIntentsDone ==
    \E r \in RunIds :
        /\ runs[r].pc = "done"
        /\ Len(runs[r].notifications) >= 2
        /\ runs[r].i = Len(runs[r].notifications)
        /\ runs[r].pushSuccess

\* C29: a trigger rejected by the in-flight guard or by the debounce window
\* leaves the pending notifications as they were: no cancel call goes to the
\* adapter, no timer is cleared and the persisted queue is not emptied, the
\* cleanup of the previous effect run included.
RejectedTriggerChangesNothing ==
    [][ ( /\ Trigger
          /\ currentSchedule' # NoSchedule
          /\ currentSchedule'.date = Today
          /\ settings'.notificationsEnabled
          /\ schedulingInProgress \/ clock - lastScheduleTime < 1000
          /\ StartedRuns' = StartedRuns )
        => /\ cleanupCancels' = cleanupCancels
           /\ timers' = timers
           /\ dbNotifications' = dbNotifications
           /\ serverPending' = serverPending ]_vars

SpecFair == Init /\ [][Next]_vars /\ WF_vars(RunNext(BOOLEAN))

FailedSaveLeavesStore ==
    [][ ( /\ ops' = ops + 1
          /\ lastOp'.name \in { "updateBlockStatus", "snoozeBlock", "resetBlockStatus",
                                "updateBlockTitle" }
          /\ lastOp'.failed )
        => /\ currentSchedule' = currentSchedule
           /\ dbSchedules' = dbSchedules
           /\ storeError' = SaveError ]_vars

\* the snooze of a block of the loaded schedule failed to save after an
\* earlier call had saved
SnoozeFailedToSave ==
    /\ lastOp.name = "snoozeBlock" /\ lastOp.failed
    /\ lastOp.blockId \in BlockIds(currentSchedule)
    /\ storeError = SaveError
    /\ dbSchedules[currentSchedule.date] # ScheduleFromTemplate("evening", currentSchedule.date)

OrderedByStart(schedule) ==
    \A i \in DOMAIN schedule.blocks, j \in DOMAIN schedule.blocks :
        i < j => schedule.blocks[i].start <= schedule.blocks[j].start

\* C33: after any sequence of applyTemplateToDate, snoozeBlock,
\* updateBlockStatus and resetBlockStatus the blocks of the loaded schedule and
\* of every saved schedule are in the order of their start times.
BlocksOrderedByStart ==
    /\ OrderedByStart(currentSchedule)
    /\ \A d \in Dates : OrderedByStart(dbSchedules[d])

StampedIffCompleted(schedule) ==
    \A i \in DOMAIN schedule.blocks :
        schedule.blocks[i].completedAt # Undefined <=> schedule.blocks[i].status = "completed"

\* C35: in every schedule reached through applyTemplateToDate,
\* updateBlockStatus, resetBlockStatus and snoozeBlock, loaded or saved, a block
\* has a completion timestamp exactly when its status is completed; a snooze
\* changes neither the status nor the timestamp of any block.
TimestampIffCompleted ==
    /\ [](/\ StampedIffCompleted(currentSchedule)
          /\ \A d \in Dates : StampedIffCompleted(dbSchedules[d]))
    /\ [][ SavedStep("snoozeBlock")
           => \A i \in DOMAIN currentSchedule.blocks :
                 /\ currentSchedule'.blocks[i].status = currentSchedule.blocks[i].status
                 /\ currentSchedule'.blocks[i].completedAt = currentSchedule.blocks[i].completedAt ]_vars

\* one block completed at the session's start, another
\* skipped: the first has its timestamp, the second has none
CompletedAndSkippedBlocks ==
    /\ lastOp.name = "updateBlockStatus" /\ lastOp.status = "skipped" /\ lastOp.wrote
    /\ lastOp.blockId \in BlockIds(currentSchedule)
    /\ BlockOf(currentSchedule, lastOp.blockId).completedAt = Undefined
    /\ \E b \in BlockIds(currentSchedule) \ {lastOp.blockId} :
          /\ BlockOf(currentSchedule, b).status = "completed"
          /\ BlockOf(currentSchedule, b).completedAt = SessionStart
          /\ BlockOf(dbSchedules[currentSchedule.date], b).completedAt = SessionStart

\* ---------------------------------------------------------------------------
\* Block mutations whose saves are in flight together
\* ---------------------------------------------------------------------------

\* store/index.ts:332-343, 392-403, 416-430   a block mutation up to its await:
\* it reads currentSchedule, builds the updated copy and calls updateSchedule,
\* which calls saveSchedule and waits
Issued(name, blockId, status, minutes, updatedBlocks) ==
    /\ UserOp(name, currentSchedule.date, blockId, status, minutes, FALSE, FALSE)
    /\ StoreUnchanged
    /\ saveCalls' =
          IF NothingLoaded
          THEN saveCalls
          ELSE Append(saveCalls,
                 [ blockId  |-> blockId,
                   schedule |-> [currentSchedule EXCEPT !.blocks = updatedBlocks],
                   overlaps |-> \E i \in DOMAIN saveCalls : ~saveCalls[i].settled,
                   settled  |-> FALSE,
                   saved    |-> FALSE ])
    /\ UNCHANGED << svars, pvars, tvars, testCall, reminders >>

IssueUpdateBlockStatus(blockId, status) ==
    Issued("updateBlockStatus", blockId, status, 0,
           [i \in DOMAIN currentSchedule.blocks |->
               IF currentSchedule.blocks[i].id = blockId
               THEN CompleteOrSkip(currentSchedule.blocks[i], status, clock)
               ELSE currentSchedule.blocks[i]])

IssueResetBlockStatus(blockId) ==
    Issued("resetBlockStatus", blockId, "", 0,
           [i \in DOMAIN currentSchedule.blocks |->
               IF currentSchedule.blocks[i].id = blockId
               THEN ResetStatus(currentSchedule.blocks[i])
               ELSE currentSchedule.blocks[i]])

IssueSnoozeBlock(blockId, minutes) ==
    Issued("snoozeBlock", blockId, "", minutes,
           [i \in DOMAIN currentSchedule.blocks |->
               IF currentSchedule.blocks[i].id = blockId
               THEN Snoozed(currentSchedule.blocks[i], minutes)
               ELSE currentSchedule.blocks[i]])

Unsettled == {i \in DOMAIN saveCalls : ~saveCalls[i].settled}

\* storage.ts:144-147 and store/index.ts:316-327   the put of the oldest call
\* in flight ends (the puts on one object store end in the order they were
\* made) and updateSchedule goes on after its await
SaveSettled(ok) ==
    /\ Unsettled # {}
    /\ LET i == CHOOSE x \in Unsettled : \A y \in Unsettled : x <= y
       IN  /\ UpdateSchedule(saveCalls[i].schedule, ok)
           /\ saveCalls' = [saveCalls EXCEPT ![i].settled = TRUE, ![i].saved = ok]
    /\ storeError' = IF ok THEN storeError ELSE SaveError
    /\ UNCHANGED << ops, lastOp, svars, pvars, tvars, testCall, reminders >>

NextAsync ==
    \/ \E b \in StoreBlockIds, s \in Statuses : IssueUpdateBlockStatus(b, s)
    \/ \E b \in StoreBlockIds : IssueResetBlockStatus(b)
    \/ \E b \in StoreBlockIds, m \in StoreSnoozeMinutes : IssueSnoozeBlock(b, m)
    \/ \E ok \in BOOLEAN : SaveSettled(ok)

SpecAsync == InitStore /\ [][NextAsync]_vars

\* the block of the call is, in the schedule, as the call made it
EffectIn(schedule, call) ==
    BlockOf(schedule, call.blockId) = BlockOf(call.schedule, call.blockId)

\* C34: when two mutations of different blocks of the loaded schedule were
\* issued so that their saves were in flight together and both saves ended
\* well, the saved schedule and the loaded schedule hold the effect of both.
NoLostUpdate ==
    \A i \in DOMAIN saveCalls, j \in DOMAIN saveCalls :
        ( /\ i < j
          /\ saveCalls[j].overlaps
          /\ saveCalls[i].settled /\ saveCalls[i].saved
          /\ saveCalls[j].settled /\ saveCalls[j].saved
          /\ saveCalls[i].blockId # saveCalls[j].blockId
          /\ {saveCalls[i].blockId, saveCalls[j].blockId} \subseteq BlockIds(currentSchedule) )
        => /\ EffectIn(currentSchedule, saveCalls[i])
           /\ EffectIn(currentSchedule, saveCalls[j])
           /\ EffectIn(dbSchedules[currentSchedule.date], saveCalls[i])
           /\ EffectIn(dbSchedules[currentSchedule.date], saveCalls[j])

\* ---------------------------------------------------------------------------
\* The deriver and the state of the blocks
\* ---------------------------------------------------------------------------

\* C36: the batch does not depend on the status of the blocks: every list that
\* differs from the derived one only in status and completion timestamp gives
\* the same batch.
StatusBlind ==
    dPc = "derived"
    => \A other \in StatusVariants(dBlocks) :
          scheduleBlockNotifications(other, dLead, dDate, dNow) = dOut

\* a completed block and a skipped block, contiguous and still ahead: the
\* batch holds the wrap-up of the first and the "How did it go?" of the second
MarkedBlocksNotified ==
    /\ dPc = "derived"
    /\ Len(dBlocks) = 2
    /\ dBlocks[1].status = "completed" /\ dBlocks[2].status = "skipped"
    /\ \E i \in DOMAIN dOut : dOut[i].id = [prefix |-> "block-wrap", blockId |-> dBlocks[1].id]
    /\ \E i \in DOMAIN dOut : dOut[i].id = [prefix |-> "block-end", blockId |-> dBlocks[2].id]

\* C37: every derived intent names a block of the list whose end is after the
\* time of the derivation, whatever the order of the blocks in the list.
IntentsTargetUnfinishedBlocks ==
    dPc = "derived"
    => \A i \in DOMAIN dOut :
          \E k \in DOMAIN dBlocks :
              /\ dBlocks[k].id = dOut[i].blockId
              /\ dBlocks[k].end > dNow

\* a list that is not in the order of the start times and holds a block that
\* is over, derived into a batch that is not empty
UnsortedListWithFinishedBlock ==
    /\ dPc = "derived"
    /\ dOut # << >>
    /\ \E i \in DOMAIN dBlocks, j \in DOMAIN dBlocks : i < j /\ dBlocks[i].start > dBlocks[j].start
    /\ \E k \in DOMAIN dBlocks : dBlocks[k].end <= dNow

\* ---------------------------------------------------------------------------
\* The test notification
\* ---------------------------------------------------------------------------

TestTypes == {"early-warning", "block-start", "block-end"}

\* notifications.ts:409-457   the intent of the test, due delaySeconds (30)
\* after the call; one call is made, so the Date.now() in its id is left out
TestNotification(blocks, index, date, notificationType, earlyWarningMinutes, now) ==
    LET block == blocks[index]
        due   == now + 30 * 1000
    IN  IF notificationType = "early-warning"
        THEN IF IsContiguous(blocks, index) /\ earlyWarningMinutes > 0
             THEN Intent("test-early-warning", block.id, due, "Wrap up", block.title,
                         "Next: .. in .. minutes", blocks[index + 1].title, earlyWarningMinutes,
                         TRUE, date, "early-warning")
             ELSE Intent("test-early-warning", block.id, due, "Coming up", block.title,
                         "Starting in .. minutes", "", earlyWarningMinutes,
                         TRUE, date, "early-warning")
        ELSE IF notificationType = "block-start"
        THEN Intent("test-block-start", block.id, due, "Time for", block.title,
                    "Starting now until", "", formatHHmm(block.end),
                    FALSE, date, "block-start")
        ELSE Intent("test-block-end", block.id, due, "How did it go?", "",
                    "Mark as complete or skipped", block.title, 0,
                    FALSE, date, "block-end")

\* notifications.ts:389-408, 466, 227-233   scheduleTestNotification with the
\* blocks of the loaded schedule, up to the first await of
\* scheduleNotificationsPush; an unknown block id returns false
ScheduleTestNotification(blockId, notificationType) ==
    /\ testCall.pc = "idle"
    /\ ~NothingLoaded
    /\ testCall' =
          IF blockId \in BlockIds(currentSchedule)
          THEN [ pc |-> "clear",
                 notification |->
                    TestNotification(currentSchedule.blocks,
                        CHOOSE i \in DOMAIN currentSchedule.blocks : currentSchedule.blocks[i].id = blockId,
                        currentSchedule.date, notificationType, settings.earlyWarningMinutes, clock),
                 success |-> FALSE ]
          ELSE [IdleTest EXCEPT !.pc = "done"]
    /\ UNCHANGED << cvars, dvars, svars, pvars, tvars, saveCalls, reminders >>

\* notifications.ts:232-233   await clearScheduledNotifications(), its result
\* dropped
TestClearDone(ok) ==
    /\ testCall.pc = "clear"
    /\ serverPending' = ServerClear(ok)
    /\ testCall' = [testCall EXCEPT !.pc = "bulk"]
    /\ UNCHANGED << clock, dbSchedules, currentSchedule, settings, cleanupFn, timeoutIds,
                    lastScheduledDate, schedulingInProgress, lastScheduleTime, runs,
                    cleanupCancels, dbNotifications, timers, shown, ops, lastOp, storeError,
                    dvars, svars, pvars, tvars, saveCalls, reminders >>

\* notifications.ts:247-255, 466-474   the bulk request with the one intent;
\* its response.ok is the result of the call
TestBulkDone(ok) ==
    /\ testCall.pc = "bulk"
    /\ serverPending' = IF ok THEN ServerBulk({testCall.notification}) ELSE serverPending
    /\ testCall' = [testCall EXCEPT !.pc = "done", !.success = ok]
    /\ UNCHANGED << clock, dbSchedules, currentSchedule, settings, cleanupFn, timeoutIds,
                    lastScheduledDate, schedulingInProgress, lastScheduleTime, runs,
                    cleanupCancels, dbNotifications, timers, shown, ops, lastOp, storeError,
                    dvars, svars, pvars, tvars, saveCalls, reminders >>

NextTest ==
    \/ \E d \in Dates : LoadScheduleForDate(d) /\ UNCHANGED << svars, avars >>
    \/ RunNext(BOOLEAN)
    \/ \E b \in StoreBlockIds, t \in TestTypes : ScheduleTestNotification(b, t)
    \/ \E ok \in BOOLEAN : TestClearDone(ok)
    \/ \E ok \in BOOLEAN : TestBulkDone(ok)

SpecTest == Init /\ [][NextTest]_vars

ReminderInstants ==
    { At(1, 20, 0) + 30000, At(1, 21, 0) + 30000, At(1, 23, 30) + 30000, At(1, 23, 59) + 59900,
      At(2, 0, 0) + 100, At(2, 0, 0) + 30000, At(2, 0, 0) + 59900,
      At(2, 21, 0) + 30000, At(2, 21, 0) + 59900, At(2, 23, 30) + 30000 }

\* the read of the day's checklist (notifications.ts:318-325) takes at most
\* this long
MaxAwaitMs == 1000

\* notifications.ts:307-316   now >= 21:00 of now's day
IsTimeForReminder(now) == formatHHmm(now) >= 2100

\* notifications.ts:352-358   now >= 23:30 of now's day
shouldShowLightsOutReminder(now) == formatHHmm(now) >= 2330

\* part_014:166-170
LightsOutChecked(r, now) ==
    IF shouldShowLightsOutReminder(now) /\ ~r.lightsOutShown
    THEN [r EXCEPT !.lightsOutShown = TRUE,
                   !.log = Append(@, [tag |-> "lights-out-reminder", at |-> now])]
    ELSE r

\* part_014:158-160   checkReminders up to its await: before 21:00
\* shouldShowChecklistReminder answers false at once, from 21:00 on it reads
\* the checklist of the day first
CheckCalled(r, now) ==
    IF IsTimeForReminder(now)
    THEN [r EXCEPT !.checks = @ + 1]
    ELSE LightsOutChecked(r, now)

RemindersFrame == UNCHANGED << cvars, dvars, svars, pvars, tvars, saveCalls, testCall >>

\* part_014:176-177   a tick of the polling timer, set when the effect ran
CheckTick ==
    /\ settings.notificationsEnabled
    /\ clock > reminders.since /\ (clock - reminders.since) % MinMs = 0
    /\ reminders.checkedAt # clock
    /\ reminders' = CheckCalled([reminders EXCEPT !.checkedAt = clock], clock)
    /\ RemindersFrame

\* part_014:160-170, notifications.ts:318-346   the checklist was read (no
\* manual input, or the read failed: show; manual input: do not), and
\* checkReminders goes on after its await
CheckResumed(shouldShowChecklist) ==
    /\ reminders.checks > 0
    /\ LET r == [reminders EXCEPT !.checks = @ - 1]
           c == IF shouldShowChecklist /\ ~r.checklistShown
                THEN [r EXCEPT !.checklistShown = TRUE,
                               !.log = Append(@, [tag |-> "checklist-reminder", at |-> clock])]
                ELSE r
       IN  reminders' = LightsOutChecked(c, clock)
    /\ RemindersFrame

\* part_014:181-193   a tick of the timer set at mount that falls in minute
\* 00:00; the other ticks of this timer change nothing
ResetFlagsTick ==
    /\ clock > reminders.mountedAt /\ (clock - reminders.mountedAt) % MinMs = 0
    /\ reminders.resetAt # clock
    /\ formatHHmm(clock) = 0
    /\ reminders' = [reminders EXCEPT !.checklistShown = FALSE, !.lightsOutShown = FALSE,
                                      !.resetAt = clock]
    /\ RemindersFrame

\* part_014:155-179   notifications switched: the cleanup clears the polling
\* timer; switched on, the effect checks at once and sets a new timer
SwitchNotifications ==
    /\ ToggleNotifications
    /\ reminders' = IF settings.notificationsEnabled
                    THEN [reminders EXCEPT !.since = Undefined]
                    ELSE CheckCalled([reminders EXCEPT !.since = clock], clock)
    /\ UNCHANGED << svars, pvars, tvars, saveCalls, testCall >>

\* The hook as mounted at some instant of the evening, no schedule loaded: the
\* reset timer is set, and with notifications on the first check is made.
InitReminders ==
    /\ RecordsOff /\ ConversionsOff /\ saveCalls = << >> /\ testCall = IdleTest
    /\ clock \in {At(1, 20, 0) + 30000, At(1, 23, 59) + 59900}
    /\ settings \in [notificationsEnabled : BOOLEAN, earlyWarningMinutes : {0}]
    /\ dbSchedules = [d \in Dates |-> NoSchedule]
    /\ currentSchedule = NoSchedule
    /\ cleanupFn = FALSE
    /\ timeoutIds = {}
    /\ lastScheduledDate = NoKey
    /\ schedulingInProgress = FALSE
    /\ lastScheduleTime = 0
    /\ runs = [r \in RunIds |-> IdleRun]
    /\ serverPending = {}
    /\ cleanupCancels = 0
    /\ dbNotifications = {}
    /\ timers = {}
    /\ shown = {}
    /\ ops = 0
    /\ lastOp = NoOp
    /\ storeError = ""
    /\ WindowOpen
    /\ DeriverOff
    /\ reminders = IF settings.notificationsEnabled
                   THEN CheckCalled([NoReminders EXCEPT !.mountedAt = clock, !.since = clock], clock)
                   ELSE [NoReminders EXCEPT !.mountedAt = clock]

NextReminders ==
    \/ CheckTick
    \/ \E should \in BOOLEAN : CheckResumed(should)
    \/ ResetFlagsTick
    \/ SwitchNotifications
    \/ TimePasses({t \in ReminderInstants : reminders.checks > 0 => t - clock <= MaxAwaitMs})

SpecReminders == InitReminders /\ [][NextReminders]_vars

ShownOncePerDay(log) ==
    \A i \in DOMAIN log, j \in DOMAIN log :
        (i < j /\ log[i].tag = log[j].tag) => formatDate(log[i].at) # formatDate(log[j].at)

\* C39: neither reminder is shown twice on one calendar day, whatever the
\* polling ticks and the switching of notifications, and a shown flag goes
\* back to false only in a step taken in minute 00:00.
RemindersOncePerDay ==
    /\ []ShownOncePerDay(reminders.log)
    /\ [][ ( \/ reminders.checklistShown /\ ~reminders'.checklistShown
             \/ reminders.lightsOutShown /\ ~reminders'.lightsOutShown )
           => formatHHmm(clock) = 0 ]_vars
====
